---- MODULE Spec2Model ----
(***************************************************************************)
(* A model of tracer.py (enhanced-traceroute): main, LocalGeoTraceroute    *)
(* and its run_traceroute_realtime loop over the lines of the trace        *)
(* subprocess.                                                             *)
(*                                                                         *)
(* Text is modelled as sequences of one-character strings, so that the     *)
(* banner test (substring of the lower-cased line) and the search for the  *)
(* address pattern are computed character by character.  Python's None is  *)
(* the empty sequence and a present value x is <<x>>.                      *)
(***************************************************************************)
EXTENDS Integers, Sequences, FiniteSets, TLC

(***************************************************************************)
(* Bounds of the model.                                                    *)
(***************************************************************************)
\* The largest number of lines the child process delivers in one run.
MaxLines == 4

(***************************************************************************)
(* Values.                                                                 *)
(***************************************************************************)
None == <<>>

Some(x) == <<x>>

\* Python truthiness of an optional name (None and '' are false).
Truthy(v) == v # None /\ v # Some("")

\* Python's "a or b" on optional names.
PyOr(a, b) == IF Truthy(a) THEN a ELSE b

Digits == {"0", "1", "2", "3", "4", "5", "6", "7", "8", "9"}

Whitespace == {" ", "\n", "\t"}

UpperToLower ==
    [c \in {"A", "C", "E", "G", "I", "N", "O", "R", "T", "U"} |->
        CASE c = "A" -> "a" [] c = "C" -> "c" [] c = "E" -> "e"
          [] c = "G" -> "g" [] c = "I" -> "i" [] c = "N" -> "n"
          [] c = "O" -> "o" [] c = "R" -> "r" [] c = "T" -> "t"
          [] c = "U" -> "u"]

\* str.lower() on the characters the trace lines of the model use.
LowerChar(c) == IF c \in DOMAIN UpperToLower THEN UpperToLower[c] ELSE c

Lower(s) == [i \in 1..Len(s) |-> LowerChar(s[i])]

\* "sub in s" of Python: sub occurs in s as a contiguous substring.
Contains(s, sub) ==
    \E p \in 1..(Len(s) - Len(sub) + 1) : SubSeq(s, p, p + Len(sub) - 1) = sub

\* str.strip(): leading and trailing whitespace removed.
Strip(s) ==
    LET keep == {i \in 1..Len(s) : s[i] \notin Whitespace}
    IN  IF keep = {} THEN <<>>
        ELSE LET lo == CHOOSE i \in keep : \A j \in keep : i <= j
                 hi == CHOOSE i \in keep : \A j \in keep : j <= i
             IN  SubSeq(s, lo, hi)

(***************************************************************************)
(* The lines the child process may write to its standard output, the       *)
(* banner phrases and the addresses that occur in the lines.               *)
(***************************************************************************)
LineBanner ==
    <<"t","r","a","c","e","r","o","u","t","e"," ","t","o"," ","e","x","a","m",
      "p","l","e",".","c","o","m"," ","(","9","3",".","1","8","4",".","2","1",
      "6",".","3","4",")",","," ","3","0"," ","h","o","p","s"," ","m","a","x",
      "\n">>

LineHop1 ==
    <<" ","1"," "," ","1","9","2",".","1","6","8",".","1",".","1"," "," ","1",
      ".","2","3","4"," ","m","s","\n">>

LineTimeout ==
    <<" ","2"," "," ","*"," ","*"," ","*","\n">>

LineHop3 ==
    <<" ","3"," "," ","9","3",".","1","8","4",".","2","1","6",".","3","4"," ",
      " ","2","0",".","1"," ","m","s","\n">>

LineWinBanner ==
    <<"T","r","a","c","i","n","g"," ","R","o","u","t","e"," ","T","O"," ","e",
      "x","a","m","p","l","e",".","c","o","m"," ","[","9","3",".","1","8","4",
      ".","2","1","6",".","3","4","]","\n">>

\* " 4  1.2.3 ms 1234.5.6.7891 8.8.8.8": a partial match, digit runs longer
\* than three, an octet above 255 and a second address on the same line.
LineMixed ==
    <<" ","4"," "," ","1",".","2",".","3"," ","m","s"," ","1","2","3","4",".",
      "5",".","6",".","7","8","9","1"," ","8",".","8",".","8",".","8","\n">>

\* The table of lines; a state names a line by its index in the table.
LineTable ==
    <<LineBanner, LineHop1, LineTimeout, LineHop3, LineWinBanner, LineMixed>>

LineIds == 1..Len(LineTable)

PhraseTracerouteTo ==
    <<"t","r","a","c","e","r","o","u","t","e"," ","t","o">>

PhraseTracingRouteTo ==
    <<"t","r","a","c","i","n","g"," ","r","o","u","t","e"," ","t","o">>

IpGateway ==
    <<"1","9","2",".","1","6","8",".","1",".","1">>

IpExample ==
    <<"9","3",".","1","8","4",".","2","1","6",".","3","4">>

IpRuns ==
    <<"2","3","4",".","5",".","6",".","7","8","9">>

IpDns ==
    <<"8",".","8",".","8",".","8">>

(***************************************************************************)
(* The address pattern (?:[0-9]{1,3}\.){3}[0-9]{1,3} and re.search.         *)
(***************************************************************************)
\* s[p .. p+n-1] are n digits.
DigitRun(s, p, n) == p + n - 1 <= Len(s) /\ \A i \in p..(p + n - 1) : s[i] \in Digits

RECURSIVE MatchFrom(_, _, _)
\* The backtracking match of the pattern's remaining part at position p of
\* s, with `groups` groups "[0-9]{1,3}\." still to match before the last
\* "[0-9]{1,3}".  Each quantifier is greedy: three digits are tried before
\* two, two before one.  The result is the position of the last matched
\* character, or 0 when nothing matches at p.
MatchFrom(s, p, groups) ==
    IF groups = 0
    THEN IF DigitRun(s, p, 3) THEN p + 2
         ELSE IF DigitRun(s, p, 2) THEN p + 1
         ELSE IF DigitRun(s, p, 1) THEN p
         ELSE 0
    ELSE LET try(n) ==
                 IF DigitRun(s, p, n) /\ p + n <= Len(s) /\ s[p + n] = "."
                 THEN MatchFrom(s, p + n + 1, groups - 1)
                 ELSE 0
         IN  IF try(3) # 0 THEN try(3)
             ELSE IF try(2) # 0 THEN try(2)
             ELSE try(1)

RECURSIVE SearchFrom(_, _)
\* re.search tries the start positions from left to right.
SearchFrom(s, p) ==
    IF p > Len(s) THEN None
    ELSE LET e == MatchFrom(s, p, 3)
         IN  IF e # 0 THEN Some(SubSeq(s, p, e)) ELSE SearchFrom(s, p + 1)

RECURSIVE SearchBack(_, _)
SearchBack(s, p) ==
    IF p < 1 THEN None
    ELSE LET e == MatchFrom(s, p, 3)
         IN  IF e # 0 THEN Some(SubSeq(s, p, e)) ELSE SearchBack(s, p - 1)

\* A search that tries the start positions from right to left.
re_search_last(line) == SearchBack(line, Len(line))

\* re.search(self.ip_pattern, line) followed by ip_match.group():
\* None, or Some(the matched text).
re_search(line) == SearchFrom(line, 1)

\* A banner test that does not lower-case the line.
IsHeaderLine_CaseSensitive(line) ==
    \/ Contains(line, PhraseTracerouteTo)
    \/ Contains(line, PhraseTracingRouteTo)

\* The banner test of the read loop.
IsHeaderLine(line) ==
    \/ Contains(Lower(line), PhraseTracerouteTo)
    \/ Contains(Lower(line), PhraseTracingRouteTo)

(***************************************************************************)
(* The two databases.  A database file is "missing", "invalid" (the file   *)
(* exists and geoip2.database.Reader raises on opening it), "damaged" (the *)
(* reader opens and every read of a record raises) or "valid".             *)
(***************************************************************************)
FileStates == {"missing", "invalid", "damaged", "valid"}

DigitValue ==
    [c \in Digits |->
        CASE c = "0" -> 0 [] c = "1" -> 1 [] c = "2" -> 2 [] c = "3" -> 3
          [] c = "4" -> 4 [] c = "5" -> 5 [] c = "6" -> 6 [] c = "7" -> 7
          [] c = "8" -> 8 [] c = "9" -> 9]

RECURSIVE OctetsInRange(_, _, _)
\* Every dot-separated number of s from position p on is at most 255
\* (acc is the value of the digits read since the last dot).
OctetsInRange(s, p, acc) ==
    IF p > Len(s) THEN acc <= 255
    ELSE IF s[p] = "." THEN acc <= 255 /\ OctetsInRange(s, p + 1, 0)
    ELSE OctetsInRange(s, p + 1, 10 * acc + DigitValue[s[p]])

\* The records of the city database.
CityRecords ==
    (IpExample :>
        [city |-> Some("Norwell"), subdivisions |-> <<Some("Massachusetts")>>,
         country |-> Some("United States"), latitude |-> 42, longitude |-> -71])

\* The records of the ASN database.
AsnRecords ==
    (IpExample :> [number |-> 15133, organization |-> "EDGECAST"])
    @@ (IpDns :> [number |-> 15169, organization |-> "GOOGLE"])

(***************************************************************************)
(* Exceptions.  A call either answers with a value or raises an exception  *)
(* of some class; an except clause catches the instances of its class.     *)
(***************************************************************************)
Raise(exc) == [raised |-> TRUE, exc |-> exc]

Answer(rec) == [raised |-> FALSE, response |-> rec]

\* The base class of each exception class that occurs in the program.
BaseClass ==
    [c \in {"FileNotFoundError", "PermissionError", "gaierror", "OSError",
            "UnicodeDecodeError", "ValueError", "AddressNotFoundError",
            "InvalidDatabaseError", "RuntimeError", "Exception"} |->
        CASE c \in {"FileNotFoundError", "PermissionError", "gaierror"} -> "OSError"
          [] c = "UnicodeDecodeError" -> "ValueError"
          [] c \in {"AddressNotFoundError", "InvalidDatabaseError"} -> "RuntimeError"
          [] c \in {"OSError", "ValueError", "RuntimeError"} -> "Exception"
          [] c = "Exception" -> "BaseException"]

RECURSIVE IsSubclass(_, _)
IsSubclass(c, d) ==
    \/ c = d
    \/ c \in DOMAIN BaseClass /\ IsSubclass(BaseClass[c], d)

\* "except clause:" catches an exception of class exc.
Catches(clause, exc) == IsSubclass(exc, clause)

\* try: return <call> / except <clause>: return <fallback>
TryExcept(call, clause, fallback) ==
    IF call.raised /\ Catches(clause, call.exc) THEN Answer(fallback) ELSE call

\* The query of a reader over a database in state `file` for address ip.
Query(file, records, ip) ==
    IF file = "damaged" THEN Raise("InvalidDatabaseError")
    ELSE IF ~OctetsInRange(ip, 1, 0) THEN Raise("ValueError")
    ELSE IF ip \notin DOMAIN records THEN Raise("AddressNotFoundError")
    ELSE Answer(records[ip])

\* self.city_reader.city(ip)
city_query(file, ip) == Query(file, CityRecords, ip)

\* self.asn_reader.asn(ip)
asn_query(file, ip) == Query(file, AsnRecords, ip)

\* The dictionary get_location builds from a response.
LocationOf(resp) ==
    [city    |-> PyOr(resp.city, Some("N/A")),
     region  |-> IF Len(resp.subdivisions) > 0
                 THEN resp.subdivisions[Len(resp.subdivisions)]
                 ELSE Some("N/A"),
     country |-> PyOr(resp.country, Some("N/A")),
     lat     |-> resp.latitude,
     lon     |-> resp.longitude]

\* An except clause that catches only the "address not found" error.
LocationExceptClause_NotFoundOnly == "AddressNotFoundError"

\* The except clause of get_location.
LocationExceptClause == "Exception"

\* get_location: the dictionary, or None when the query raised an exception
\* the except clause catches.
get_location_on(r) ==
    TryExcept(IF r.raised THEN r ELSE Answer(Some(LocationOf(r.response))),
              LocationExceptClause, None)

get_location(file, ip) == get_location_on(city_query(file, ip))

\* The except clause of get_asn.
AsnExceptClause == "Exception"

\* get_asn: the dictionary, or None when the query raised an exception the
\* except clause catches.
get_asn(file, ip) ==
    LET r == asn_query(file, ip)
    IN  TryExcept(IF r.raised THEN r
                  ELSE Answer(Some([asn |-> r.response.number,
                                    org |-> r.response.organization])),
                  AsnExceptClause, None)

\* A block that tells "private or not found" when either lookup gave nothing.
format_hop_PrivateIfEither(hop_number, ip, location, asn_info, raw_output) ==
    <<[kind |-> "header", n |-> hop_number, ip |-> ip]>>
    \o (IF location # None
        THEN <<[kind |-> "location", city |-> location[1].city,
                region |-> location[1].region, country |-> location[1].country],
               [kind |-> "coords", lat |-> location[1].lat, lon |-> location[1].lon]>>
        ELSE <<>>)
    \o (IF asn_info # None
        THEN <<[kind |-> "network", asn |-> asn_info[1].asn, org |-> asn_info[1].org]>>
        ELSE <<>>)
    \o (IF location = None \/ asn_info = None
        THEN <<[kind |-> "private"]>>
        ELSE <<>>)

\* format_hop: the lines of the block, in order.
format_hop(hop_number, ip, location, asn_info, raw_output) ==
    <<[kind |-> "header", n |-> hop_number, ip |-> ip]>>
    \o (IF location # None
        THEN <<[kind |-> "location", city |-> location[1].city,
                region |-> location[1].region, country |-> location[1].country],
               [kind |-> "coords", lat |-> location[1].lat, lon |-> location[1].lon]>>
        ELSE <<>>)
    \o (IF asn_info # None
        THEN <<[kind |-> "network", asn |-> asn_info[1].asn, org |-> asn_info[1].org]>>
        ELSE <<>>)
    \o (IF location = None /\ asn_info = None
        THEN <<[kind |-> "private"]>>
        ELSE <<>>)

(***************************************************************************)
(* The inputs of a run.                                                    *)
(***************************************************************************)
DestExample ==
    <<"e","x","a","m","p","l","e",".","c","o","m">>

\* The destinations given on the command line: a host name and an address.
Destinations == {DestExample, IpDns}

\* len(sys.argv): the program name alone, one argument, two arguments.
ArgCounts == {1, 2, 3}

\* subprocess.os.name
OsNames == {"posix", "nt"}

\* The address records of the name service.
DnsRecords == (DestExample :> IpExample)

\* socket.gethostbyname: a dotted quad is returned as it is; a name is
\* looked up, which raises when the name service fails (dnsUp is false) or
\* has no record of it.
gethostbyname(destination, dnsUp) ==
    IF MatchFrom(destination, 1, 3) = Len(destination) /\ OctetsInRange(destination, 1, 0)
    THEN Answer(destination)
    ELSE IF dnsUp /\ destination \in DOMAIN DnsRecords
    THEN Answer(DnsRecords[destination])
    ELSE Raise("gaierror")

\* resolve_target: the address, or None when gethostbyname raised.
resolve_target(destination, dnsUp) ==
    LET r == gethostbyname(destination, dnsUp)
    IN  TryExcept(IF r.raised THEN r ELSE Answer(Some(r.response)),
                  "Exception", None)

\* The command of the trace subprocess.
Command(osName, destination) ==
    IF osName = "nt"
    THEN <<"tracert", destination>>
    ELSE <<"traceroute", "-n", destination>>

\* The lines printed before the subprocess is launched.
summary_block(destination, target_ip, location, asn_info) ==
    <<[kind |-> "title"], [kind |-> "time"], [kind |-> "target", target |-> destination]>>
    \o (IF target_ip # None
        THEN <<[kind |-> "resolved", ip |-> target_ip[1]]>>
             \o (IF location # None
                 THEN <<[kind |-> "location", city |-> location[1].city,
                         region |-> location[1].region,
                         country |-> location[1].country]>>
                 ELSE <<>>)
             \o (IF asn_info # None
                 THEN <<[kind |-> "network", asn |-> asn_info[1].asn,
                         org |-> asn_info[1].org]>>
                 ELSE <<>>)
        ELSE <<>>)
    \o <<[kind |-> "rule"]>>

(***************************************************************************)
(* The state of one execution of the program.                              *)
(***************************************************************************)
VARIABLES
    pc,           \* where the program is
    argc,         \* len(sys.argv)
    destination,  \* sys.argv[1]
    osName,       \* subprocess.os.name
    cityFile,     \* the state of the city database file
    asnFile,      \* the state of the ASN database file
    city_reader,  \* self.city_reader: "unset", "open", "closed"
    asn_reader,   \* self.asn_reader: "unset", "open", "closed"
    target_ip,    \* run_traceroute_realtime's local
    location,     \* run_traceroute_realtime's local
    asn_info,     \* run_traceroute_realtime's local
    cmd,          \* the command given to Popen, None before
    proc,         \* the child process: "none", "running", "exited"
    returncode,   \* process.returncode, None until the child was waited for
    consumed,     \* the lines read from process.stdout so far (indices)
    hop_number,   \* run_traceroute_realtime's local
    ip,           \* run_traceroute_realtime's local
    printed,      \* what was written to sys.stdout, in order
    flushed,      \* how many entries of printed have left the buffer
    lookups,      \* the queries made to the two readers, in order
    raised,       \* the exception raised in run_traceroute_realtime and where
    returned,     \* the value run_traceroute_realtime returned, None before
    exitCode,     \* the exit code of the process, None while it runs
    stdoutPipe,   \* the lines the child wrote to stdout that were not read yet
    stderrPipe,   \* how many chunks the child's stderr pipe holds
    childOut,     \* how many lines the child has still to write to stdout
    childErr,     \* how many chunks the child has still to write to stderr
    childExited,  \* the child has written all its output and has exited
    pureCall,     \* the method call under study, None when a whole run is
    pureResult    \* what the call under study returned, None before

vars ==
    <<pc, argc, destination, osName, cityFile, asnFile, city_reader, asn_reader,
      target_ip, location, asn_info, cmd, proc, returncode, consumed,
      hop_number, ip, printed, flushed, lookups, raised, returned, exitCode,
      stdoutPipe, stderrPipe, childOut, childErr, childExited, pureCall, pureResult>>

\* The variables of the program itself.
parentVars ==
    <<pc, argc, destination, osName, cityFile, asnFile, city_reader, asn_reader,
      target_ip, location, asn_info, cmd, proc, returncode, consumed,
      hop_number, ip, printed, flushed, lookups, raised, returned, exitCode>>

pipeVars == <<stdoutPipe, stderrPipe, childOut, childErr, childExited>>

callVars == <<pureCall, pureResult>>

envVars == <<argc, destination, osName, cityFile, asnFile>>

readerVars == <<city_reader, asn_reader>>

loopVars == <<consumed, hop_number, ip>>

procVars == <<cmd, proc, returncode>>

\* The child's side of the pipes is not looked at: its output is whatever
\* line the loop is given next.
NoChild ==
    /\ stdoutPipe = <<>>
    /\ stderrPipe = 0
    /\ childOut = 0
    /\ childErr = 0
    /\ childExited = FALSE

\* No single method call is under study.
NoCall ==
    /\ pureCall = None
    /\ pureResult = None

Init ==
    /\ pc = "main"
    /\ argc \in ArgCounts
    /\ destination \in Destinations
    /\ osName \in OsNames
    /\ cityFile \in FileStates
    /\ asnFile \in FileStates
    /\ city_reader = "unset"
    /\ asn_reader = "unset"
    /\ target_ip = None
    /\ location = None
    /\ asn_info = None
    /\ cmd = None
    /\ proc = "none"
    /\ returncode = None
    /\ consumed = <<>>
    /\ hop_number = 0
    /\ ip = None
    /\ printed = <<>>
    /\ flushed = 0
    /\ lookups = <<>>
    /\ raised = None
    /\ returned = None
    /\ exitCode = None
    /\ NoChild
    /\ NoCall

\* sys.exit(code), or the end of main: the interpreter flushes sys.stdout.
Exit(code, out) ==
    /\ pc' = "exited"
    /\ exitCode' = Some(code)
    /\ printed' = out
    /\ flushed' = Len(out)

\* The except clause of main.
MainExceptClause == "Exception"

\* An exception reaches main's try block: the except clause reports it and
\* exits with 1; an exception it does not catch ends the interpreter with a
\* traceback on standard error and exit code 1.
MainRaises(exc) ==
    IF Catches(MainExceptClause, exc)
    THEN Exit(1, Append(printed, [kind |-> "fatal", exc |-> exc]))
    ELSE Exit(1, printed)

\* The exit code with which main ends after run_traceroute_realtime has
\* returned: its result is not looked at.
MainExitCode(result) == 0

(***************************************************************************)
(* main, up to the call of run_traceroute_realtime.                        *)
(***************************************************************************)
\* The argument count test of main.
CheckArgs ==
    /\ pc = "main"
    /\ IF argc # 2
       THEN Exit(1, Append(printed, [kind |-> "usage"]))
       ELSE /\ pc' = "init"
            /\ UNCHANGED <<exitCode, printed, flushed>>
    /\ UNCHANGED <<envVars, pipeVars, callVars, readerVars, target_ip, location, asn_info, procVars,
                   loopVars, lookups, raised, returned>>

\* A constructor that does not test the existence of the ASN file.
Construct_SkipAsnCheck(city, asn) ==
    IF city = "missing"
    THEN [exc |-> Some("FileNotFoundError"), city_reader |-> "unset", asn_reader |-> "unset"]
    ELSE IF city = "invalid"
    THEN [exc |-> Some("InvalidDatabaseError"), city_reader |-> "unset", asn_reader |-> "unset"]
    ELSE IF asn = "invalid"
    THEN [exc |-> Some("InvalidDatabaseError"), city_reader |-> "open", asn_reader |-> "unset"]
    ELSE [exc |-> None, city_reader |-> "open", asn_reader |-> "open"]

\* What __init__ does: it raises (with the readers opened so far), or
\* opens both readers.
Construct(city, asn) ==
    IF city = "missing"
    THEN [exc |-> Some("FileNotFoundError"), city_reader |-> "unset", asn_reader |-> "unset"]
    ELSE IF asn = "missing"
    THEN [exc |-> Some("FileNotFoundError"), city_reader |-> "unset", asn_reader |-> "unset"]
    ELSE IF city = "invalid"
    THEN [exc |-> Some("InvalidDatabaseError"), city_reader |-> "unset", asn_reader |-> "unset"]
    ELSE IF asn = "invalid"
    THEN [exc |-> Some("InvalidDatabaseError"), city_reader |-> "open", asn_reader |-> "unset"]
    ELSE [exc |-> None, city_reader |-> "open", asn_reader |-> "open"]

\* tracer = LocalGeoTraceroute(CITY_DB_PATH, ASN_DB_PATH) in main's try
\* block.
NewTracer ==
    /\ pc = "init"
    /\ LET r == Construct(cityFile, asnFile)
       IN  /\ city_reader' = r.city_reader
           /\ asn_reader' = r.asn_reader
           /\ IF r.exc # None
              THEN MainRaises(r.exc[1])
              ELSE /\ pc' = "run"
                   /\ UNCHANGED <<exitCode, printed, flushed>>
    /\ UNCHANGED <<envVars, pipeVars, callVars, target_ip, location, asn_info, procVars, loopVars,
                   lookups, raised, returned>>

(***************************************************************************)
(* run_traceroute_realtime.                                                *)
(***************************************************************************)
Last(q) == q[Len(q)]

\* The query of get_location for address a, and the query of get_asn.
CityQuery(a) == <<"city", a>>

AsnQuery(a) == <<"asn", a>>

\* Summary lookups made whether or not the target resolved.
SummaryLookups_Unconditional(t, cfile, afile) ==
    [queries |-> <<CityQuery(t), AsnQuery(t)>>,
     location |-> IF t # None THEN get_location(cfile, t[1]) ELSE Answer(None),
     asn_info |-> IF t # None THEN get_asn(afile, t[1]) ELSE Answer(None)]

\* A summary that never looks the target up.
SummaryLookups_Never(t, cfile, afile) ==
    [queries |-> <<>>, location |-> Answer(None), asn_info |-> Answer(None)]

\* The lookups of the summary: made when the target resolved.
SummaryLookups(t, cfile, afile) ==
    IF t # None
    THEN [queries |-> <<CityQuery(t[1]), AsnQuery(t[1])>>,
          location |-> get_location(cfile, t[1]),
          asn_info |-> get_asn(afile, t[1])]
    ELSE [queries |-> <<>>, location |-> Answer(None), asn_info |-> Answer(None)]

\* An exception leaves run_traceroute_realtime before its try block.
RaisedInPrologue(exc) ==
    /\ raised' = Some([exc |-> exc, at |-> "summary"])
    /\ MainRaises(exc)

\* The start of run_traceroute_realtime: the target is resolved, looked up
\* when it resolved, and the summary is printed.
Prologue ==
    /\ pc = "run"
    /\ \E dnsUp \in BOOLEAN :
          LET rt == resolve_target(destination, dnsUp)
              t  == IF rt.raised THEN None ELSE rt.response
              s  == SummaryLookups(t, cityFile, asnFile)
          IN  IF rt.raised
              THEN /\ RaisedInPrologue(rt.exc)
                   /\ UNCHANGED <<target_ip, location, asn_info, lookups>>
              ELSE /\ target_ip' = t
                   /\ IF s.location.raised
                      THEN /\ RaisedInPrologue(s.location.exc)
                           /\ lookups' = lookups \o SubSeq(s.queries, 1, 1)
                           /\ UNCHANGED <<location, asn_info>>
                      ELSE IF s.asn_info.raised
                      THEN /\ RaisedInPrologue(s.asn_info.exc)
                           /\ lookups' = lookups \o s.queries
                           /\ location' = s.location.response
                           /\ UNCHANGED asn_info
                      ELSE /\ location' = s.location.response
                           /\ asn_info' = s.asn_info.response
                           /\ lookups' = lookups \o s.queries
                           /\ printed' = Append(printed,
                                  [kind |-> "summary",
                                   block |-> summary_block(destination, t,
                                                 s.location.response,
                                                 s.asn_info.response)])
                           /\ pc' = "launch"
                           /\ UNCHANGED <<flushed, raised, exitCode>>
    /\ UNCHANGED <<envVars, pipeVars, callVars, readerVars, procVars, loopVars, returned>>

\* An except clause that catches only operating system errors.
RunExceptClause_OSError == "OSError"

\* The except clause of run_traceroute_realtime.
RunExceptClause == "Exception"

\* What the except clause of run_traceroute_realtime returns.
ReturnOnException == FALSE

\* An exception is raised in the try block of run_traceroute_realtime: the
\* except clause prints the message and returns, and an exception it does
\* not catch goes on to main.
RaisedInTry(exc, at) ==
    /\ raised' = Some([exc |-> exc, at |-> at])
    /\ IF Catches(RunExceptClause, exc)
       THEN /\ printed' = Append(printed, [kind |-> "error", exc |-> exc])
            /\ returned' = Some(ReturnOnException)
            /\ pc' = "return"
            /\ UNCHANGED <<flushed, exitCode>>
       ELSE /\ MainRaises(exc)
            /\ UNCHANGED returned

\* The ways subprocess.Popen ends.
LaunchOutcomes == {"started", "FileNotFoundError", "PermissionError"}

\* The command is chosen and the child process is launched; Popen may raise.
Launch ==
    /\ pc = "launch"
    /\ cmd' = Some(Command(osName, destination))
    /\ \E outcome \in LaunchOutcomes :
          IF outcome = "started"
          THEN /\ proc' = "running"
               /\ hop_number' = 0
               /\ pc' = "read"
               /\ UNCHANGED <<printed, flushed, raised, returned, exitCode>>
          ELSE /\ RaisedInTry(outcome, "launch")
               /\ UNCHANGED <<proc, hop_number>>
    /\ UNCHANGED <<envVars, pipeVars, callVars, readerVars, target_ip, location, asn_info, returncode,
                   consumed, ip, lookups>>

\* A loop that counts the line before the header test.
Scan_CountBeforeSkip(line, n) ==
    IF IsHeaderLine(line)
    THEN [hop |-> FALSE, hop_number |-> n + 1, match |-> None]
    ELSE LET ip_match == re_search(line)
         IN  IF ip_match # None
             THEN [hop |-> TRUE, hop_number |-> n + 1, match |-> ip_match]
             ELSE [hop |-> FALSE, hop_number |-> n, match |-> None]

\* A loop that counts every line that is not a header, as the trace tool's
\* own hop index does.
Scan_CountEveryLine(line, n) ==
    IF IsHeaderLine(line)
    THEN [hop |-> FALSE, hop_number |-> n, match |-> None]
    ELSE LET ip_match == re_search(line)
         IN  IF ip_match # None
             THEN [hop |-> TRUE, hop_number |-> n + 1, match |-> ip_match]
             ELSE [hop |-> FALSE, hop_number |-> n + 1, match |-> None]

\* The loop's decision on one line when the counter is n: a header line is
\* skipped; otherwise the address pattern is searched and a match counts
\* the hop.
Scan(line, n) ==
    IF IsHeaderLine(line)
    THEN [hop |-> FALSE, hop_number |-> n, match |-> None]
    ELSE LET ip_match == re_search(line)
         IN  IF ip_match # None
             THEN [hop |-> TRUE, hop_number |-> n + 1, match |-> ip_match]
             ELSE [hop |-> FALSE, hop_number |-> n, match |-> None]

\* The child process delivers its next line; the loop skips it or extracts
\* its address and counts the hop.
ReadLine ==
    /\ pc = "read"
    /\ Len(consumed) < MaxLines
    /\ \E l \in LineIds :
          LET r == Scan(LineTable[l], hop_number)
          IN  /\ consumed' = Append(consumed, l)
              /\ hop_number' = r.hop_number
              /\ IF r.hop
                 THEN /\ ip' = r.match
                      /\ pc' = "lookup"
                 ELSE /\ pc' = "read"
                      /\ UNCHANGED ip
    /\ UNCHANGED <<envVars, pipeVars, callVars, readerVars, target_ip, location, asn_info, procVars,
                   printed, flushed, lookups, raised, returned, exitCode>>

\* The two lookups of the hop.
Lookup ==
    /\ pc = "lookup"
    /\ LET rl == get_location(cityFile, ip[1])
           ra == get_asn(asnFile, ip[1])
       IN  IF rl.raised
           THEN /\ RaisedInTry(rl.exc, "lookup")
                /\ lookups' = Append(lookups, CityQuery(ip[1]))
                /\ UNCHANGED <<location, asn_info>>
           ELSE IF ra.raised
           THEN /\ RaisedInTry(ra.exc, "lookup")
                /\ lookups' = lookups \o <<CityQuery(ip[1]), AsnQuery(ip[1])>>
                /\ location' = rl.response
                /\ UNCHANGED asn_info
           ELSE /\ location' = rl.response
                /\ asn_info' = ra.response
                /\ lookups' = lookups \o <<CityQuery(ip[1]), AsnQuery(ip[1])>>
                /\ pc' = "print"
                /\ UNCHANGED <<printed, flushed, raised, returned, exitCode>>
    /\ UNCHANGED <<envVars, pipeVars, callVars, readerVars, target_ip, procVars, loopVars>>

\* print(self.format_hop(...))
PrintHop ==
    /\ pc = "print"
    /\ printed' = Append(printed,
           [kind |-> "hop",
            block |-> format_hop(hop_number, ip[1], location, asn_info,
                                 Strip(LineTable[Last(consumed)]))])
    /\ pc' = "flush"
    /\ UNCHANGED <<envVars, pipeVars, callVars, readerVars, target_ip, location, asn_info, procVars,
                   loopVars, flushed, lookups, raised, returned, exitCode>>

\* A loop that leaves the block it printed in the buffer.
Flushed_Deferred(out, n) == n

\* How many entries of out have left the buffer after sys.stdout.flush(),
\* when n had left it before: all of them.
Flushed(out, n) == Len(out)

\* sys.stdout.flush()
Flush ==
    /\ pc = "flush"
    /\ flushed' = Flushed(printed, flushed)
    /\ pc' = "read"
    /\ UNCHANGED <<envVars, pipeVars, callVars, readerVars, target_ip, location, asn_info, procVars,
                   loopVars, printed, lookups, raised, returned, exitCode>>

\* The exceptions reading a line may raise.
ReadErrors == {"OSError", "UnicodeDecodeError"}

\* Reading the next line raises.
ReadError ==
    /\ pc = "read"
    /\ \E exc \in ReadErrors : RaisedInTry(exc, "read")
    /\ UNCHANGED <<envVars, pipeVars, callVars, readerVars, target_ip, location, asn_info, procVars,
                   loopVars, lookups>>

\* The child's output ends: the loop is left.
EndOfStream ==
    /\ pc = "read"
    /\ pc' = "wait"
    /\ UNCHANGED <<envVars, pipeVars, callVars, readerVars, target_ip, location, asn_info, procVars,
                   loopVars, printed, flushed, lookups, raised, returned,
                   exitCode>>

\* The exit statuses of the child.
ExitStatuses == {0, 1}

\* A return that reports a status other than 0 as failure.
ReturnAfterWait_Escalate(rc) == rc = 0

\* What run_traceroute_realtime returns when the child has exited with
\* status rc.
ReturnAfterWait(rc) == TRUE

\* process.wait(), the warning for a status other than 0, and the return.
Wait ==
    /\ pc = "wait"
    /\ \E rc \in ExitStatuses :
          /\ returncode' = Some(rc)
          /\ printed' = IF rc # 0
                        THEN Append(printed, [kind |-> "warning"])
                        ELSE printed
          /\ returned' = Some(ReturnAfterWait(rc))
    /\ proc' = "exited"
    /\ pc' = "return"
    /\ UNCHANGED <<envVars, pipeVars, callVars, readerVars, target_ip, location, asn_info, cmd,
                   loopVars, flushed, lookups, raised, exitCode>>

\* run_traceroute_realtime has returned to main, which ends.
MainReturn ==
    /\ pc = "return"
    /\ Exit(MainExitCode(returned[1]), printed)
    /\ UNCHANGED <<envVars, pipeVars, callVars, readerVars, target_ip, location, asn_info, procVars,
                   loopVars, lookups, raised, returned>>

Next ==
    \/ CheckArgs
    \/ NewTracer
    \/ Prologue
    \/ Launch
    \/ ReadLine
    \/ Lookup
    \/ PrintHop
    \/ Flush
    \/ ReadError
    \/ EndOfStream
    \/ Wait
    \/ MainReturn

Spec == Init /\ [][Next]_vars

(***************************************************************************)
(* The end of the tracer object.  The object is referenced by main's local *)
(* variable and, after an exception, by the frames of the traceback; the   *)
(* interpreter drops these references when main has ended or the exit is   *)
(* under way, and the reference count reaching zero calls __del__.         *)
(***************************************************************************)
\* A finalizer that closes the city reader only.
Finalize_CityOnly(city, asn) ==
    [city_reader |-> IF city # "unset" THEN "closed" ELSE city,
     asn_reader  |-> asn]

\* __del__: each reader the object has as an attribute is closed.
Finalize(city, asn) ==
    [city_reader |-> IF city # "unset" THEN "closed" ELSE city,
     asn_reader  |-> IF asn # "unset" THEN "closed" ELSE asn]

\* The program has ended; the tracer object, if one was created, is
\* finalized and the process is gone.
Teardown ==
    /\ pc = "exited"
    /\ pc' = "gone"
    /\ LET f == Finalize(city_reader, asn_reader)
       IN  /\ city_reader' = f.city_reader
           /\ asn_reader' = f.asn_reader
    /\ UNCHANGED <<envVars, pipeVars, callVars, target_ip, location, asn_info,
                   procVars, loopVars, printed, flushed, lookups, raised,
                   returned, exitCode>>

LifeNext ==
    \/ Next
    \/ Teardown

\* A run of the program up to the end of its process.
LifeSpec == Init /\ [][LifeNext]_vars

(***************************************************************************)
(* Single calls of get_location and of format_hop, over the responses a    *)
(* city database can give and the arguments the loop can pass.             *)
(***************************************************************************)
\* The largest sequence number passed to format_hop.
MaxHopNumber == 2

\* What a city response holds: the name of the city (None when the database
\* has none), the subdivisions from the least to the most specific, each
\* with its name or None, and the name of the country.
CityNames == {None, Some(""), Some("Norwell")}

SubdivisionLists ==
    {<<>>, <<Some("Massachusetts")>>, <<None>>, <<Some("England"), None>>}

CountryNames == {None, Some("United States")}

CityResponses ==
    {[city |-> c, subdivisions |-> sd, country |-> k, latitude |-> 42,
      longitude |-> -71] : c \in CityNames, sd \in SubdivisionLists,
                           k \in CountryNames}

\* The exceptions a query of the city reader raises.
QueryErrors == {"AddressNotFoundError", "ValueError", "InvalidDatabaseError"}

\* The outcomes of self.city_reader.city(ip).
CityOutcomes ==
    {Answer(resp) : resp \in CityResponses} \cup {Raise(e) : e \in QueryErrors}

\* The values get_location and get_asn hand to format_hop.
Locations == {get_location_on(r).response : r \in CityOutcomes}

Owners == {None} \cup {Some([asn |-> AsnRecords[a].number,
                              org |-> AsnRecords[a].organization]) :
                            a \in DOMAIN AsnRecords}

\* line.strip() of the lines that yield a hop.
RawLines == {Strip(LineTable[l]) : l \in {2, 4}}

FormatCalls ==
    {[fn |-> "format_hop", hop_number |-> n, ip |-> a, location |-> loc,
      asn_info |-> own, raw_output |-> raw] :
        n \in 1..MaxHopNumber, a \in {IpGateway, IpExample}, loc \in Locations,
        own \in Owners, raw \in RawLines}

LocationCalls == {[fn |-> "get_location", r |-> r] : r \in CityOutcomes}

\* One call is about to be made, outside any run.
PureInit ==
    /\ pc = "call"
    /\ argc = 2
    /\ destination = DestExample
    /\ osName = "posix"
    /\ cityFile = "valid"
    /\ asnFile = "valid"
    /\ city_reader = "open"
    /\ asn_reader = "open"
    /\ target_ip = None
    /\ location = None
    /\ asn_info = None
    /\ cmd = None
    /\ proc = "none"
    /\ returncode = None
    /\ consumed = <<>>
    /\ hop_number = 0
    /\ ip = None
    /\ printed = <<>>
    /\ flushed = 0
    /\ lookups = <<>>
    /\ raised = None
    /\ returned = None
    /\ exitCode = None
    /\ NoChild
    /\ \/ pureCall \in FormatCalls
       \/ pureCall \in LocationCalls
    /\ pureResult = None

\* self.format_hop(hop_number, ip, location, asn_info, line.strip())
CallFormatHop ==
    /\ pc = "call"
    /\ pureResult = None
    /\ pureCall.fn = "format_hop"
    /\ pureResult' = Some(format_hop(pureCall.hop_number, pureCall.ip,
                                     pureCall.location, pureCall.asn_info,
                                     pureCall.raw_output))
    /\ UNCHANGED <<parentVars, pipeVars, pureCall>>

\* self.get_location(ip), when the reader's query has outcome pureCall.r
CallGetLocation ==
    /\ pc = "call"
    /\ pureResult = None
    /\ pureCall.fn = "get_location"
    /\ pureResult' = Some(get_location_on(pureCall.r))
    /\ UNCHANGED <<parentVars, pipeVars, pureCall>>

PureNext ==
    \/ CallFormatHop
    \/ CallGetLocation

PureSpec == PureInit /\ [][PureNext]_vars

(***************************************************************************)
(* The child and its two pipes.  Popen gives the child a pipe for stdout   *)
(* and a pipe for stderr; the program reads the first line by line and     *)
(* never reads the second.  A pipe holds a bounded amount of data: a write *)
(* to a full pipe blocks the writer, a read from an empty pipe blocks the  *)
(* reader until the writer writes or closes its end.                       *)
(***************************************************************************)
\* How many lines (stdout) or chunks (stderr) a pipe holds.
PipeCapacity == 2

\* The most lines a child writes to stdout, and the most chunks to stderr.
MaxChildLines == 2

MaxChildErr == 3

\* The lines the child writes: a hop with an address, a timeout.
ChildLines == {2, 3}

\* A run with both databases in place and one argument; the child, once
\* launched, writes childOut lines and childErr chunks and exits.
PipeInit ==
    /\ pc = "main"
    /\ argc = 2
    /\ destination \in Destinations
    /\ osName \in OsNames
    /\ cityFile = "valid"
    /\ asnFile = "valid"
    /\ city_reader = "unset"
    /\ asn_reader = "unset"
    /\ target_ip = None
    /\ location = None
    /\ asn_info = None
    /\ cmd = None
    /\ proc = "none"
    /\ returncode = None
    /\ consumed = <<>>
    /\ hop_number = 0
    /\ ip = None
    /\ printed = <<>>
    /\ flushed = 0
    /\ lookups = <<>>
    /\ raised = None
    /\ returned = None
    /\ exitCode = None
    /\ stdoutPipe = <<>>
    /\ stderrPipe = 0
    /\ childOut \in 0..MaxChildLines
    /\ childErr \in 0..MaxChildErr
    /\ childExited = FALSE
    /\ NoCall

\* The child runs from Popen until it exits.
ChildRuns == proc = "running" /\ ~childExited

\* The child writes a line to stdout; the write needs room in the pipe.
ChildWriteLine ==
    /\ ChildRuns
    /\ childOut > 0
    /\ Len(stdoutPipe) < PipeCapacity
    /\ \E l \in ChildLines : stdoutPipe' = Append(stdoutPipe, l)
    /\ childOut' = childOut - 1
    /\ UNCHANGED <<parentVars, callVars, stderrPipe, childErr, childExited>>

\* The child writes a chunk to stderr; the write needs room in the pipe.
ChildWriteErr ==
    /\ ChildRuns
    /\ childErr > 0
    /\ stderrPipe < PipeCapacity
    /\ stderrPipe' = stderrPipe + 1
    /\ childErr' = childErr - 1
    /\ UNCHANGED <<parentVars, callVars, stdoutPipe, childOut, childExited>>

\* The child has written everything and exits, which closes its ends of
\* the pipes.
ChildExit ==
    /\ ChildRuns
    /\ childOut = 0
    /\ childErr = 0
    /\ childExited' = TRUE
    /\ UNCHANGED <<parentVars, callVars, stdoutPipe, stderrPipe, childOut, childErr>>

\* for line in process.stdout: a line is in the pipe and the loop takes it.
PipeReadLine ==
    /\ pc = "read"
    /\ stdoutPipe # <<>>
    /\ LET r == Scan(LineTable[Head(stdoutPipe)], hop_number)
       IN  /\ consumed' = Append(consumed, Head(stdoutPipe))
           /\ stdoutPipe' = Tail(stdoutPipe)
           /\ hop_number' = r.hop_number
           /\ IF r.hop
              THEN /\ ip' = r.match
                   /\ pc' = "lookup"
              ELSE /\ pc' = "read"
                   /\ UNCHANGED ip
    /\ UNCHANGED <<envVars, callVars, readerVars, target_ip, location, asn_info,
                   procVars, printed, flushed, lookups, raised, returned,
                   exitCode, stderrPipe, childOut, childErr, childExited>>

\* for line in process.stdout: the pipe is empty and the child has closed
\* its end, so the loop is left.
PipeEndOfStream ==
    /\ stdoutPipe = <<>>
    /\ childExited
    /\ EndOfStream

\* process.wait() returns once the child has exited.
PipeWait ==
    /\ childExited
    /\ Wait

PipeNext ==
    \/ CheckArgs
    \/ NewTracer
    \/ Prologue
    \/ Launch
    \/ ChildWriteLine
    \/ ChildWriteErr
    \/ ChildExit
    \/ PipeReadLine
    \/ Lookup
    \/ PrintHop
    \/ Flush
    \/ PipeEndOfStream
    \/ PipeWait
    \/ MainReturn

\* Both processes are scheduled: a step that can be taken is taken.
PipeSpec == PipeInit /\ [][PipeNext]_vars /\ WF_vars(PipeNext)

(***************************************************************************)
(* The reference reading of a line, stated without the program's search:   *)
(* what a banner line is and what the first address of a line is.          *)
(***************************************************************************)
\* c is the letter d in either case.
RefSameLetter(c, d) ==
    \/ c = d
    \/ <<c, d>> \in {<<"A", "a">>, <<"C", "c">>, <<"E", "e">>, <<"G", "g">>,
                     <<"I", "i">>, <<"N", "n">>, <<"O", "o">>, <<"R", "r">>,
                     <<"T", "t">>, <<"U", "u">>}

\* The phrase occurs in the line, in any letter case.
RefHasPhrase(line, phrase) ==
    \E p \in 1..(Len(line) - Len(phrase) + 1) :
        \A k \in 1..Len(phrase) : RefSameLetter(line[p + k - 1], phrase[k])

RefIsBanner(line) ==
    \/ RefHasPhrase(line, PhraseTracerouteTo)
    \/ RefHasPhrase(line, PhraseTracingRouteTo)

\* t is IPv4-shaped: four groups of one to three digits, separated by dots.
RefShaped(t) ==
    \E a, b, c, d \in 1..3 :
        /\ Len(t) = a + b + c + d + 3
        /\ \A i \in 1..Len(t) :
              IF i \in {a + 1, a + b + 2, a + b + c + 3}
              THEN t[i] = "."
              ELSE t[i] \in Digits

\* The first IPv4-shaped substring of the line: the leftmost start, and the
\* longest such substring at that start; None when there is none.
RefAddress(line) ==
    LET shaped == {c \in (1..Len(line)) \X (1..Len(line)) :
                      /\ c[1] <= c[2]
                      /\ c[2] - c[1] < 15
                      /\ RefShaped(SubSeq(line, c[1], c[2]))}
    IN  IF shaped = {} THEN None
        ELSE LET first == CHOOSE c \in shaped :
                              \A d \in shaped :
                                  c[1] < d[1] \/ (c[1] = d[1] /\ c[2] >= d[2])
             IN  Some(SubSeq(line, first[1], first[2]))

\* The reference reading of each line of the table.
RefTable ==
    [l \in LineIds |->
        [banner |-> RefIsBanner(LineTable[l]), address |-> RefAddress(LineTable[l])]]

\* The line yields a hop: it is no banner and holds an address.
RefBearing(l) == ~RefTable[l].banner /\ RefTable[l].address # None

RECURSIVE RefAddresses(_)
\* The addresses of the hop-yielding lines, in arrival order.
RefAddresses(q) ==
    IF q = <<>> THEN <<>>
    ELSE (IF RefBearing(Head(q)) THEN <<RefTable[Head(q)].address[1]>> ELSE <<>>)
         \o RefAddresses(Tail(q))

\* The reference result of a run over lines q: the addresses numbered from 1.
RefResult(q) ==
    LET a == RefAddresses(q) IN [i \in 1..Len(a) |-> <<i, a[i]>>]

\* The hops of an output, and their (sequence number, address) pairs.
Hops(out) == SelectSeq(out, LAMBDA e : e.kind = "hop")

HopPairs(out) ==
    LET h == Hops(out) IN [i \in 1..Len(h) |-> <<h[i].block[1].n, h[i].block[1].ip>>]

CountKind(out, k) == Len(SelectSeq(out, LAMBDA e : e.kind = k))

IsPrefix(a, b) == Len(a) <= Len(b) /\ SubSeq(b, 1, Len(a)) = a

\* A hop has been counted and is not printed yet.
HopPending == pc \in {"lookup", "print"}

(***************************************************************************)
(* C1.  The sequence numbers of the emitted hops are 1, 2, ..., k in       *)
(* emission order, and the counter is the number of lines read so far that *)
(* yield a hop: it starts at 0, a line with an address adds exactly 1, and *)
(* banner lines and lines without an address add nothing, wherever they    *)
(* stand among the others.                                                 *)
(***************************************************************************)
C1_SequenceNumbers ==
    LET pairs == HopPairs(printed)
    IN  /\ \A i \in 1..Len(pairs) : pairs[i][1] = i
        /\ hop_number = Cardinality({i \in 1..Len(consumed) : RefBearing(consumed[i])})
        /\ Len(pairs) = IF HopPending THEN hop_number - 1 ELSE hop_number

\* Two hops were emitted around a timeout line and a banner line.
C1_Witness ==
    /\ consumed = <<2, 3, 1, 4>>
    /\ pc = "exited"
    /\ Len(Hops(printed)) = 2
    /\ hop_number = 2

(***************************************************************************)
(* C2.  Whenever no hop is pending, the emitted (number, address) pairs    *)
(* are the reference result of the lines read: banner lines dropped, lines *)
(* without an address dropped, the first address of each other line, in    *)
(* arrival order with repeats kept, numbered from 1.  For the lines        *)
(* [banner, " 1  192.168.1.1  1.234 ms", " 2  * * *",                      *)
(* " 3  93.184.216.34  20.1 ms"] the result is [(1, 192.168.1.1),          *)
(* (2, 93.184.216.34)].                                                    *)
(***************************************************************************)
C2_ReferenceResult ==
    /\ ~HopPending => HopPairs(printed) = RefResult(consumed)
    /\ (consumed = <<1, 2, 3, 4>> /\ ~HopPending)
           => HopPairs(printed) = <<<<1, IpGateway>>, <<2, IpExample>>>>

\* The run over the four lines of the example has completed with the two
\* hops of the example.
C2_Witness ==
    /\ pc = "exited"
    /\ returned = Some(TRUE)
    /\ consumed = <<1, 2, 3, 4>>
    /\ HopPairs(printed) = <<<<1, IpGateway>>, <<2, IpExample>>>>

\* The step reads a line (the last of consumed' is the line read).
ReadsLine == consumed' # consumed

(***************************************************************************)
(* C3.  A step that reads a line holding "traceroute to" or "tracing route *)
(* to" in any letter case extracts no address, makes no lookup, emits      *)
(* nothing and leaves the hop counter as it was, also when the line holds  *)
(* an IPv4-shaped substring; the loop goes on to the next line.            *)
(***************************************************************************)
C3_BannerSkipped ==
    [][(ReadsLine /\ RefTable[Last(consumed')].banner)
          => /\ hop_number' = hop_number
             /\ ip' = ip
             /\ lookups' = lookups
             /\ printed' = printed
             /\ flushed' = flushed
             /\ pc' = "read"]_vars

\* After one hop, a banner line in mixed case that holds an address was
\* read and skipped.
C3_Witness ==
    /\ consumed = <<2, 5>>
    /\ RefTable[5].banner
    /\ RefTable[5].address # None
    /\ pc = "read"
    /\ hop_number = 1
    /\ Len(lookups) = IF target_ip = None THEN 2 ELSE 4

(***************************************************************************)
(* C4.  A step that reads a line with no IPv4-shaped substring (such as    *)
(* the timeout line " 2  * * *") leaves the hop counter and the output as  *)
(* they were and makes no lookup; the loop goes on to the next line.       *)
(***************************************************************************)
C4_NoAddressSkipped ==
    [][(ReadsLine /\ RefTable[Last(consumed')].address = None)
          => /\ hop_number' = hop_number
             /\ ip' = ip
             /\ lookups' = lookups
             /\ printed' = printed
             /\ flushed' = flushed
             /\ pc' = "read"]_vars

\* After one hop, the timeout line was read and skipped.
C4_Witness ==
    /\ consumed = <<2, 3>>
    /\ RefTable[3].address = None
    /\ pc = "read"
    /\ hop_number = 1
    /\ Len(Hops(printed)) = 1

\* An exception was raised by the launch or by the reading of a line.
LaunchOrReadRaised(r) == r # None /\ r[1].at \in {"launch", "read"}

(***************************************************************************)
(* C5.  When the launch of the child or the reading of a line raises, the  *)
(* exception is caught in run_traceroute_realtime: that step prints one    *)
(* error message and returns False to main, nothing is printed by the run  *)
(* afterwards, and no step of the program removes or changes an entry      *)
(* already printed, so every hop emitted before the failure stays in the   *)
(* output, in order.                                                       *)
(***************************************************************************)
C5_ExceptionCaught ==
    [][/\ IsPrefix(printed, printed')
       /\ (raised = None /\ LaunchOrReadRaised(raised'))
             => /\ pc' = "return"
                /\ returned' = Some(FALSE)
                /\ exitCode' = None
                /\ printed' = Append(printed, [kind |-> "error", exc |-> raised'[1].exc])
       /\ LaunchOrReadRaised(raised)
             => /\ raised' = raised
                /\ printed' = printed
                /\ returned' = Some(FALSE)
                /\ CountKind(printed', "error") = 1]_vars

\* A read error after two emitted hops: the hops are in the output, before
\* the one error message.
C5_Witness ==
    /\ LaunchOrReadRaised(raised)
    /\ raised[1].at = "read"
    /\ pc = "exited"
    /\ returned = Some(FALSE)
    /\ HopPairs(printed) = <<<<1, IpGateway>>, <<2, IpExample>>>>
    /\ Last(printed).kind = "error"

(***************************************************************************)
(* C6.  The exit code is 1 when the argument count is wrong, when a        *)
(* database file is missing and when a subprocess failure aborts the run,  *)
(* and 0 on normal completion; a run that returns failure ends in a        *)
(* non-zero exit code.                                                     *)
(***************************************************************************)
C6_ExitCodes ==
    pc = "exited" =>
        /\ argc # 2 => exitCode = Some(1)
        /\ (argc = 2 /\ "missing" \in {cityFile, asnFile}) => exitCode = Some(1)
        /\ LaunchOrReadRaised(raised) => exitCode = Some(1)
        /\ returned = Some(FALSE) => exitCode # Some(0)
        /\ returned = Some(TRUE) => exitCode = Some(0)

(***************************************************************************)
(* C7.  When the stream has ended and the child has exited with a status   *)
(* other than 0, the run has raised nothing and has returned True, the     *)
(* one warning is the last entry of the output, after all hops, and the    *)
(* hops are those of the lines read: none was taken back.                  *)
(***************************************************************************)
C7_NonZeroExitIsWarning ==
    (returncode # None /\ returncode[1] # 0) =>
        /\ pc \in {"return", "exited"}
        /\ raised = None
        /\ returned = Some(TRUE)
        /\ Last(printed) = [kind |-> "warning"]
        /\ CountKind(printed, "warning") = 1
        /\ CountKind(printed, "error") = 0
        /\ CountKind(printed, "fatal") = 0
        /\ HopPairs(printed) = RefResult(consumed)

\* The child exited with status 1 after two hops were emitted.
C7_Witness ==
    /\ returncode = Some(1)
    /\ pc = "exited"
    /\ Len(Hops(printed)) = 2
    /\ returned = Some(TRUE)

\* run_traceroute_realtime was called.
RunCalled == pc \notin {"main", "init"} /\ city_reader = "open" /\ asn_reader = "open"

(***************************************************************************)
(* C8.  When the destination does not resolve, the run goes on: no summary *)
(* lookup is made (the only lookups are those of the hops), nothing is     *)
(* raised, and the run does not end before it has given the command to     *)
(* the launch.  In every run the last argument of the command is the       *)
(* destination string of the caller, after the name and options of the     *)
(* trace tool.                                                             *)
(***************************************************************************)
C8_UnresolvedStillLaunches ==
    /\ cmd # None
          => /\ Last(cmd[1]) = destination
             /\ \A i \in 1..(Len(cmd[1]) - 1) : cmd[1][i] \in {"traceroute", "-n", "tracert"}
    /\ (RunCalled /\ pc # "run" /\ target_ip = None)
          => /\ Len(lookups) = 2 * (IF pc = "lookup" THEN hop_number - 1 ELSE hop_number)
             /\ CountKind(printed, "summary") = 1
             /\ pc \in {"return", "exited"} => cmd # None
             /\ pc = "launch" => (raised = None /\ exitCode = None /\ returned = None)

\* The host name did not resolve, and the child was launched with the host
\* name as its argument.
C8_Witness ==
    /\ destination = DestExample
    /\ target_ip = None
    /\ pc = "read"
    /\ proc = "running"
    /\ cmd = Some(<<"traceroute", "-n", DestExample>>)
    /\ lookups = <<>>

(***************************************************************************)
(* C9.  When a database file is missing, the construction of the tracer    *)
(* fails with a FileNotFoundError: no reader is opened, no lookup is made, *)
(* no target is resolved, no summary is printed and no child is launched,  *)
(* and the program prints the error and exits with code 1.                 *)
(***************************************************************************)
C9_MissingDatabase ==
    "missing" \in {cityFile, asnFile} =>
        /\ pc \in {"main", "init", "exited"}
        /\ city_reader = "unset" /\ asn_reader = "unset"
        /\ lookups = <<>>
        /\ target_ip = None
        /\ cmd = None /\ proc = "none"
        /\ CountKind(printed, "summary") = 0
        /\ exitCode \in {None, Some(1)}
        /\ (pc = "exited" /\ argc = 2)
              => printed = <<[kind |-> "fatal", exc |-> "FileNotFoundError"]>>

\* The ASN file is missing beside a valid city file; the program has ended.
C9_Witness ==
    /\ argc = 2
    /\ cityFile = "valid"
    /\ asnFile = "missing"
    /\ pc = "exited"
    /\ exitCode = Some(1)

\* The block of a hop for which both lookups were absent.
IsPrivateBlock(b) == Len(b) = 2 /\ b[2].kind = "private"

(***************************************************************************)
(* C10.  get_location and get_asn do not raise: a query that raises gives  *)
(* None.  A failed lookup does not end the run: the only exceptions raised *)
(* in a run are those of the launch and of the reading of a line, the run  *)
(* returns False only after one of them, and every line with an address    *)
(* read so far has its hop emitted, numbered in order, whatever its        *)
(* lookups gave.                                                           *)
(***************************************************************************)
C10_LookupFailureIsAbsent ==
    /\ pc = "lookup"
          => LET rl == get_location(cityFile, ip[1])
                 ra == get_asn(asnFile, ip[1])
             IN  /\ ~rl.raised /\ ~ra.raised
                 /\ city_query(cityFile, ip[1]).raised => rl.response = None
                 /\ asn_query(asnFile, ip[1]).raised => ra.response = None
    /\ raised # None => raised[1].at \in {"launch", "read"}
    /\ returned = Some(FALSE) => raised # None
    /\ (RunCalled /\ pc # "run")
          => /\ CountKind(printed, "fatal") = 0
             /\ Len(Hops(printed)) = (IF HopPending THEN hop_number - 1 ELSE hop_number)
             /\ hop_number = Cardinality({i \in 1..Len(consumed) : RefBearing(consumed[i])})
             /\ \A i \in 1..Len(Hops(printed)) : Hops(printed)[i].block[1].n = i

\* Both lookups failed for the first hop (an address with an octet above
\* 255), the hop was emitted, and a later hop was emitted after it.
C10_Witness ==
    /\ pc = "exited"
    /\ returned = Some(TRUE)
    /\ consumed = <<6, 4>>
    /\ city_query(cityFile, IpRuns).exc = "ValueError"
    /\ HopPairs(printed) = <<<<1, IpRuns>>, <<2, IpExample>>>>
    /\ IsPrivateBlock(Hops(printed)[1].block)

\* The loop is running: the child was launched and has not been waited for.
InLoop == pc \in {"read", "lookup", "print", "flush"}

\* The lines whose processing is complete: all the lines read, but the last
\* one while its hop is looked up, printed or flushed.
Processed ==
    IF pc \in {"lookup", "print", "flush"}
    THEN SubSeq(consumed, 1, Len(consumed) - 1)
    ELSE consumed

\* The output that has left the buffer.
Emitted == SubSeq(printed, 1, flushed)

(***************************************************************************)
(* C11.  Emission is incremental.  While the loop runs, the hops that have *)
(* left the output buffer are exactly the reference result of the lines    *)
(* whose processing is complete.  Whenever the next line is requested (and *)
(* when the loop is left), every line read so far is complete: each of its *)
(* hops has had its two lookups, in line order, and has been printed and   *)
(* flushed; no printed hop waits in the buffer.                            *)
(***************************************************************************)
C11_Incremental ==
    /\ (InLoop \/ pc = "wait") => HopPairs(Emitted) = RefResult(Processed)
    /\ pc \in {"read", "wait"}
          => LET a    == RefAddresses(consumed)
                 base == Len(lookups) - 2 * Len(a)
             IN  /\ Hops(printed) = Hops(Emitted)
                 /\ base \in {0, 2}
                 /\ \A i \in 1..Len(a) :
                       /\ lookups[base + 2 * i - 1] = CityQuery(a[i])
                       /\ lookups[base + 2 * i] = AsnQuery(a[i])

\* The third line is about to be requested: the two hops of the first two
\* lines have left the buffer, after the four lookups they needed.
C11_Witness ==
    /\ pc = "read"
    /\ consumed = <<2, 4>>
    /\ HopPairs(Emitted) = <<<<1, IpGateway>>, <<2, IpExample>>>>
    /\ Len(lookups) >= 4

(***************************************************************************)
(* C12.  Every invocation whose child writes a finite output and exits     *)
(* reaches a return of run_traceroute_realtime, with True or with False,   *)
(* whatever amount the child writes to its standard error.                 *)
(***************************************************************************)
C12_Terminates == <>(returned \in {Some(TRUE), Some(FALSE)})

\* The number of hops whose lookups were made.
HopsLookedUp == IF pc = "lookup" THEN hop_number - 1 ELSE hop_number

(***************************************************************************)
(* C13.  The summary is printed before the child is launched and before    *)
(* any hop: once a command exists, a child exists, a line was read or a    *)
(* hop was printed, the first entry of the output is the one summary, and  *)
(* between the summary and the launch nothing else has happened.  The      *)
(* summary's two lookups, for the resolved address, are made if and only   *)
(* if the destination resolved, before every hop lookup, and the summary   *)
(* shows the resolved address in exactly that case.  The summary takes no  *)
(* sequence number: the counter is 0 at the launch and the first hop       *)
(* carries 1.                                                              *)
(***************************************************************************)
C13_SummaryFirst ==
    /\ (cmd # None \/ proc # "none" \/ consumed # <<>> \/ Hops(printed) # <<>>)
          => /\ Len(printed) >= 1
             /\ printed[1].kind = "summary"
             /\ CountKind(printed, "summary") = 1
    /\ pc = "launch"
          => /\ Len(printed) = 1
             /\ printed[1].kind = "summary"
             /\ cmd = None /\ proc = "none" /\ consumed = <<>>
             /\ hop_number = 0
    /\ (RunCalled /\ pc # "run" /\ CountKind(printed, "summary") = 1)
          => /\ Len(lookups) - 2 * HopsLookedUp = (IF target_ip # None THEN 2 ELSE 0)
             /\ target_ip # None
                   => /\ lookups[1] = CityQuery(target_ip[1])
                      /\ lookups[2] = AsnQuery(target_ip[1])
             /\ target_ip # None
                   <=> (\E i \in 1..Len(printed[1].block) :
                           printed[1].block[i].kind = "resolved")
    /\ Hops(printed) # <<>> => Hops(printed)[1].block[1].n = 1

\* The host name resolved, the summary with its two lookups came first, and
\* the first hop, numbered 1, followed with its own two lookups.
C13_Witness ==
    /\ destination = DestExample
    /\ target_ip = Some(IpExample)
    /\ pc = "read"
    /\ consumed = <<2>>
    /\ lookups = <<CityQuery(IpExample), AsnQuery(IpExample),
                   CityQuery(IpGateway), AsnQuery(IpGateway)>>
    /\ printed[1].kind = "summary"
    /\ HopPairs(printed) = <<<<1, IpGateway>>>>

\* The kinds of the lines of a block, in order.
Kinds(block) == [i \in 1..Len(block) |-> block[i].kind]

\* How many lines of a block have kind k.
LinesOfKind(block, k) == Cardinality({i \in 1..Len(block) : block[i].kind = k})

(***************************************************************************)
(* C14.  The block format_hop returns starts with the header, which holds  *)
(* the sequence number and the address.  It has the location line and the  *)
(* coordinates line (once each, with the fields of the location) if and    *)
(* only if the location is present, the network line (once, with the       *)
(* owner's number and organization) if and only if the owner is present,   *)
(* and the "private or not found" line (once) if and only if both are      *)
(* absent.  It has no other line, and it is the same block whatever the    *)
(* raw line passed with the call.                                          *)
(***************************************************************************)
C14_BlockShape ==
    (pureResult # None /\ pureCall.fn = "format_hop")
       => LET b   == pureResult[1]
              loc == pureCall.location
              own == pureCall.asn_info
          IN  /\ b[1] = [kind |-> "header", n |-> pureCall.hop_number,
                                            ip |-> pureCall.ip]
              /\ LinesOfKind(b, "header") = 1
              /\ LinesOfKind(b, "location") = (IF loc # None THEN 1 ELSE 0)
              /\ LinesOfKind(b, "coords") = (IF loc # None THEN 1 ELSE 0)
              /\ LinesOfKind(b, "network") = (IF own # None THEN 1 ELSE 0)
              /\ LinesOfKind(b, "private")
                    = (IF loc = None /\ own = None THEN 1 ELSE 0)
              /\ \A i \in 1..Len(b) :
                    /\ b[i].kind \in {"header", "location", "coords", "network",
                                      "private"}
                    /\ b[i].kind = "location"
                          => /\ b[i].city = loc[1].city
                             /\ b[i].region = loc[1].region
                             /\ b[i].country = loc[1].country
                    /\ b[i].kind = "coords"
                          => b[i].lat = loc[1].lat /\ b[i].lon = loc[1].lon
                    /\ b[i].kind = "network"
                          => b[i].asn = own[1].asn /\ b[i].org = own[1].org
              /\ \A raw \in RawLines :
                    format_hop(pureCall.hop_number, pureCall.ip, loc, own, raw) = b

\* A hop with a location and no owner was formatted: header, location and
\* coordinates, and no "private or not found" line.
C14_Witness ==
    /\ pureResult # None
    /\ pureCall.fn = "format_hop"
    /\ pureCall.location # None
    /\ pureCall.asn_info = None
    /\ pureCall.raw_output = Strip(LineTable[4])
    /\ Kinds(pureResult[1]) = <<"header", "location", "coords">>

\* The name the database has for the region of a response: the name of
\* the most specific subdivision, None when there is no subdivision.
RegionName(resp) ==
    IF resp.subdivisions = <<>> THEN None
    ELSE resp.subdivisions[Len(resp.subdivisions)]

\* A field is the database's name or the marker, and is neither null nor
\* empty.
FieldGiven(field, name) ==
    /\ field \in {name, Some("N/A")}
    /\ field \notin {None, Some("")}

(***************************************************************************)
(* C16.  For every response of the city database, get_location returns a   *)
(* location whose city, region and country are each the database's name    *)
(* for the field or the marker "N/A", and never null or empty, also when   *)
(* the most specific subdivision exists and has no name.                   *)
(***************************************************************************)
C16_FieldsGiven ==
    (pureResult # None /\ pureCall.fn = "get_location" /\ ~pureCall.r.raised)
       => /\ ~pureResult[1].raised
          /\ pureResult[1].response # None
          /\ LET d    == pureResult[1].response[1]
                 resp == pureCall.r.response
             IN  /\ FieldGiven(d.city, resp.city)
                 /\ FieldGiven(d.region, RegionName(resp))
                 /\ FieldGiven(d.country, resp.country)

====
